---- MODULE Spec2Model ----
(***************************************************************************)
(* Model of app.py: the slot/ticket allocator of the crepe ticketing app.  *)
(*                                                                         *)
(* The three worksheets (slots, tickets, state) are the shared store.      *)
(* Every session (a browser session running the script) performs the       *)
(* store calls of one function in program order; calls of different        *)
(* sessions interleave freely, the store offering no transaction.          *)
(*                                                                         *)
(* Store cells hold the values the code writes and are read back as        *)
(* written (the contract of the tabular store).  Text produced by          *)
(* strftime("%H:%M") is a sequence of four digits, parsed again by to_dt.  *)
(* A date string is the day number of its date; a datetime is a number of  *)
(* minutes (day * 1440 + minute of day) in the fixed UTC+9 zone; the clock *)
(* `now` counts seconds.                                                   *)
(***************************************************************************)
EXTENDS Integers, Sequences, FiniteSets, TLC

\* ---------------------------------------------------------------- bounds
NumSessions == 2
MaxOps == 2
MaxTick == 1
MaxOther == 1
MaxIssues == 3

\* ------------------------------------------------------ program constants
ISSUE_START_HOUR == 11
ISSUE_START_MINUTE == 0
ISSUE_END_HOUR == 15
ISSUE_END_MINUTE == 30
SLOT_MINUTES == 30
CAP_PER_SLOT == 20
EXPIRE_EXTRA_MIN == 30

Procs == 1..NumSessions

\* ------------------------------------------------------- time and strings
\* cur.strftime("%H:%M") of a datetime in minutes
StrfHM(dt) ==
    LET h == (dt % 1440) \div 60
        m == (dt % 1440) % 60
    IN  <<h \div 10, h % 10, m \div 10, m % 10>>

\* h, m = map(int, hm.split(":"))
ParseHM(hm) == [h |-> hm[1] * 10 + hm[2], m |-> hm[3] * 10 + hm[4]]

\* datetime.combine(day, time(h, m), tzinfo=JST)
Combine(day, h, m) == day * 1440 + h * 60 + m

\* datetime.isoformat(): the date and the time of day of the datetime
IsoFormat(dt) == [day |-> dt \div 1440, hm |-> StrfHM(dt)]

\* datetime.now(JST).date() of a clock reading in seconds (JST = UTC+9)
DateOfClock(t) == (t + 9 * 3600) \div 86400

today_str(t) == DateOfClock(t)

to_dt(date_str, hm) == Combine(date_str, ParseHM(hm).h, ParseHM(hm).m)

\* ------------------------------------------------------------- the store
\* A worksheet: row 1 (the header: "none" on a new sheet, "ok" once
\* ensure_headers has written the expected columns) and the rows below it.
NewSheet == [hdr |-> "none", rows |-> <<>>]

\* ensure_headers with the comparison of line 99 never true: a sheet that
\* has a header is cleared
ensure_headersReset(ws) ==
    IF ws.hdr = "none" THEN [ws EXCEPT !.hdr = "ok"]
    ELSE [hdr |-> "ok", rows |-> <<>>]

\* ensure_headers: the expected header is left alone, an empty row 1 gets
\* the header, and a sheet with any other header ("other") is cleared and
\* gets the header
ensure_headers(ws) ==
    IF ws.hdr = "ok" THEN ws
    ELSE IF ws.hdr = "none" THEN [ws EXCEPT !.hdr = "ok"]
    ELSE [hdr |-> "ok", rows |-> <<>>]

\* df[df["date"] == date_str] on the slots sheet
list_slots_df(ws, date_str) == SelectSeq(ws.rows, LAMBDA r : r.date = date_str)

\* ----------------------------------------------------- slot generation
\* the while loop of ensure_today_slots
RECURSIVE GenLoop(_, _, _, _)
GenLoop(cur, end_last, date_str, rows) ==
    IF cur <= end_last
    THEN GenLoop(cur + SLOT_MINUTES, end_last, date_str,
                 Append(rows, [date |-> date_str,
                               slot_start |-> StrfHM(cur),
                               slot_end |-> StrfHM(cur + SLOT_MINUTES),
                               cap |-> CAP_PER_SLOT,
                               issued |-> 0,
                               open |-> TRUE,
                               note |-> ""]))
    ELSE rows

GenRows(date_str, clock) ==
    GenLoop(Combine(DateOfClock(clock), ISSUE_START_HOUR, ISSUE_START_MINUTE),
            Combine(DateOfClock(clock), ISSUE_END_HOUR, ISSUE_END_MINUTE),
            date_str, <<>>)

\* The value of `list_slots_df.clear()(d) or list_slots_df(d)` (lines 115,
\* 254, 336).  The comment reads it as "clear the cache, fetch again": the
\* rows of day d read afresh ("frame").  As written it calls what the
\* framework's cache clear() returns; that is None, the call raises
\* TypeError and the script's run ends in the handler of line 428.  The
\* source does not fix the framework, so both outcomes are admitted.
RefetchOutcomes == {"TypeError", "frame"}

\* EnsureDecision without the test of line 116
EnsureDecisionNoCheck(ws, date_str, o) ==
    IF o = "TypeError" THEN "raise" ELSE "generate"

\* ensure_today_slots, lines 115-117, under outcome o of the re-fetch
EnsureDecision(ws, date_str, o) ==
    IF o = "TypeError" THEN "raise"
    ELSE IF list_slots_df(ws, date_str) # <<>> THEN "return"
    ELSE "generate"

\* ws.append_rows(rows) of ensure_today_slots
AppendGenerated(ws, date_str, clock) ==
    [ws EXCEPT !.rows = @ \o GenRows(date_str, clock)]

\* ensure_today_slots run from its first line to its last with no other
\* session in between; cache is the set of dates st.cache_data holds
ensure_today_slots(ws, cache, date_str, clock, o) ==
    LET dec == EnsureDecision(ensure_headers(ws), date_str, o)
    IN  IF date_str \in cache
        THEN [res |-> "Done", slots |-> ws, cache |-> cache]
        ELSE IF dec = "raise"
        THEN [res |-> "TypeError", slots |-> ensure_headers(ws), cache |-> cache]
        ELSE IF dec = "return"
        THEN [res |-> "Done", slots |-> ensure_headers(ws),
              cache |-> cache \cup {date_str}]
        ELSE [res |-> "Done",
              slots |-> AppendGenerated(ensure_headers(ws), date_str, clock),
              cache |-> cache \cup {date_str}]

\* ------------------------------------------------------- ticket issuance
\* rows matching (date, slot_start, slot_end), by row number
MatchingRows(ws, date_str, slot_start, slot_end) ==
    {i \in 1..Len(ws.rows) :
        /\ ws.rows[i].date = date_str
        /\ ws.rows[i].slot_start = slot_start
        /\ ws.rows[i].slot_end = slot_end}

FirstRow(S) == CHOOSE i \in S : \A j \in S : i <= j

\* IssueCheck with the capacity test off by one (issued > cap)
IssueCheckOffByOne(ws, date_str, slot_start, slot_end) ==
    LET m == MatchingRows(ws, date_str, slot_start, slot_end)
    IN  IF ws.rows = <<>> THEN [err |-> "NotGenerated", issued |-> 0]
        ELSE IF m = {} THEN [err |-> "NotFound", issued |-> 0]
        ELSE LET r == ws.rows[FirstRow(m)]
             IN  IF ~r.open THEN [err |-> "Closed", issued |-> 0]
                 ELSE IF r.issued > r.cap THEN [err |-> "Full", issued |-> 0]
                 ELSE [err |-> "none", issued |-> r.issued]

\* IssueCheck without the test of the open flag
IssueCheckNoOpen(ws, date_str, slot_start, slot_end) ==
    LET m == MatchingRows(ws, date_str, slot_start, slot_end)
    IN  IF ws.rows = <<>> THEN [err |-> "NotGenerated", issued |-> 0]
        ELSE IF m = {} THEN [err |-> "NotFound", issued |-> 0]
        ELSE LET r == ws.rows[FirstRow(m)]
             IN  IF r.issued >= r.cap THEN [err |-> "Full", issued |-> 0]
                 ELSE [err |-> "none", issued |-> r.issued]

\* IssueCheck with the capacity tested before the open flag
IssueCheckFullFirst(ws, date_str, slot_start, slot_end) ==
    LET m == MatchingRows(ws, date_str, slot_start, slot_end)
    IN  IF ws.rows = <<>> THEN [err |-> "NotGenerated", issued |-> 0]
        ELSE IF m = {} THEN [err |-> "NotFound", issued |-> 0]
        ELSE LET r == ws.rows[FirstRow(m)]
             IN  IF r.issued >= r.cap THEN [err |-> "Full", issued |-> 0]
                 ELSE IF ~r.open THEN [err |-> "Closed", issued |-> 0]
                 ELSE [err |-> "none", issued |-> r.issued]

\* step 1 of issue_ticket: re-read the slots and check, in this order,
\* not generated / not found / closed / full
IssueCheck(ws, date_str, slot_start, slot_end) ==
    LET m == MatchingRows(ws, date_str, slot_start, slot_end)
    IN  IF ws.rows = <<>> THEN [err |-> "NotGenerated", issued |-> 0]
        ELSE IF m = {} THEN [err |-> "NotFound", issued |-> 0]
        ELSE LET r == ws.rows[FirstRow(m)]
             IN  IF ~r.open THEN [err |-> "Closed", issued |-> 0]
                 ELSE IF r.issued >= r.cap THEN [err |-> "Full", issued |-> 0]
                 ELSE [err |-> "none", issued |-> r.issued]

\* now.strftime("%Y%m%d-") + f"{int(now.timestamp())%100000:05d}"
TicketId(clock) == [ymd |-> DateOfClock(clock), seq |-> clock % 100000]

\* Expires without the extra minutes
ExpiresNoGrace(date_str, slot_end) == to_dt(date_str, slot_end)

\* expires = to_dt(date_str, slot_end) + timedelta(minutes=EXPIRE_EXTRA_MIN)
Expires(date_str, slot_end) == to_dt(date_str, slot_end) + EXPIRE_EXTRA_MIN

\* the row appended to the tickets sheet
TicketRow(date_str, slot_start, slot_end, clock) ==
    [ticket_id |-> TicketId(clock),
     issued_at |-> clock,
     date |-> date_str,
     slot_start |-> slot_start,
     slot_end |-> slot_end,
     expires_at |-> IsoFormat(Expires(date_str, slot_end)),
     method |-> "mobile",
     status |-> "valid"]

\* step 2 of issue_ticket: ensure_headers(ws_t), then append_row
AppendTicket(ws_t, date_str, slot_start, slot_end, clock) ==
    [ensure_headers(ws_t) EXCEPT
        !.rows = Append(@, TicketRow(date_str, slot_start, slot_end, clock))]

\* FindTargetRow matching on the date alone
FindTargetRowByDate(ws, date_str, slot_start, slot_end) ==
    LET m == {i \in 1..Len(ws.rows) : ws.rows[i].date = date_str}
    IN  IF m = {} THEN 0 ELSE FirstRow(m)

\* step 3 of issue_ticket: the row number to update, 0 for None
FindTargetRow(ws, date_str, slot_start, slot_end) ==
    LET m == MatchingRows(ws, date_str, slot_start, slot_end)
    IN  IF m = {} THEN 0 ELSE FirstRow(m)

\* ws_slots.update_cell(target_row_idx, issued_col, issued + 1)
UpdateIssued(ws, idx, issued) ==
    IF idx \in 1..Len(ws.rows)
    THEN [ws EXCEPT !.rows[idx].issued = issued + 1]
    ELSE ws

\* issue_ticket run from its first line to its last with no other session
\* in between: the result and the two sheets afterwards
issue_ticket(ws_slots, ws_t, date_str, slot_start, slot_end, clock) ==
    LET c == IssueCheck(ws_slots, date_str, slot_start, slot_end)
        t == AppendTicket(ws_t, date_str, slot_start, slot_end, clock)
        idx == FindTargetRow(ws_slots, date_str, slot_start, slot_end)
    IN  IF c.err # "none"
        THEN [res |-> c.err, slots |-> ws_slots, tickets |-> ws_t]
        ELSE IF idx = 0
        THEN [res |-> "RowNotFound", slots |-> ws_slots, tickets |-> t]
        ELSE [res |-> "OK", slots |-> UpdateIssued(ws_slots, idx, c.issued),
              tickets |-> t]

\* ------------------------------------------------------------ app state
\* state_get on the frame list_state_df() returns
state_get(df, key, default) ==
    LET m == {i \in 1..Len(df) : df[i].key = key}
    IN  IF df = <<>> THEN default
        ELSE IF m = {} THEN default
        ELSE df[FirstRow(m)].value

\* state_set, lines 148-159: what the write will be, decided on the rows read
StateSetPlan(rows, key) ==
    LET m == {i \in 1..Len(rows) : rows[i].key = key}
    IN  IF rows = <<>> THEN 0
        ELSE IF m # {} THEN FirstRow(m)
        ELSE 0

\* state_set, the write: append_row (plan 0) or update_cell(row_idx, 2, value)
StateSetWrite(ws, plan, key, value) ==
    IF plan = 0
    THEN [ws EXCEPT !.rows = Append(@, [key |-> key, value |-> value])]
    ELSE IF plan \in 1..Len(ws.rows)
    THEN [ws EXCEPT !.rows[plan].value = value]
    ELSE ws

\* ------------------------------------------------------------ page_issue
hm_to_minutes(hm) == ParseHM(hm).h * 60 + ParseHM(hm).m

\* df["disabled"] of page_issue
Disabled(r) ==
    \/ hm_to_minutes(r.slot_start) < ISSUE_START_HOUR * 60 + ISSUE_START_MINUTE
    \/ hm_to_minutes(r.slot_start) > ISSUE_END_HOUR * 60 + ISSUE_END_MINUTE
    \/ ~r.open
    \/ r.issued >= r.cap

\* ------------------------------------------------------ page_manage
\* SetOpenCell without the comparison of the slot: every row of the date
SetOpenCellWholeDay(ws, d, slot_start, slot_end, v) ==
    [ws EXCEPT !.rows = [i \in 1..Len(ws.rows) |->
                           IF ws.rows[i].date = d
                           THEN [ws.rows[i] EXCEPT !.open = v]
                           ELSE ws.rows[i]]]

\* the close / reopen handler: the first row of day d whose
\* slot_start + "-" + slot_end is the selected option gets its open cell set
SetOpenCell(ws, d, slot_start, slot_end, v) ==
    LET m == MatchingRows(ws, d, slot_start, slot_end)
    IN  IF m = {} THEN ws
        ELSE [ws EXCEPT !.rows[FirstRow(m)].open = v]

\* ------------------------------------------------------------ the inputs
FirstStart == ISSUE_START_HOUR * 60 + ISSUE_START_MINUTE

\* the k-th interval of the day as (slot_start, slot_end); k = -1 is the
\* half hour before the first slot, which no generated row matches
SlotArg(k) == <<StrfHM(FirstStart + k * SLOT_MINUTES),
                StrfHM(FirstStart + (k + 1) * SLOT_MINUTES)>>

\* the intervals the concurrent calls are made for
TargetSlots == {SlotArg(k) : k \in {-1, 0, 1}}

\* the arguments (date_str, (slot_start, slot_end)) issue_ticket is called
\* with: today's target intervals, and the first slot on the day after
IssueArgs ==
    {<<0, a>> : a \in TargetSlots} \cup {<<1, SlotArg(0)>>}

\* the arguments of the calls made one at a time: today's half hour before
\* the first slot, first slot, 13:00-13:30 and last slot 15:30-16:00, and
\* the first slot on the day after
SeqArgs ==
    {<<0, SlotArg(k)>> : k \in {-1, 0, 4, 9}} \cup {<<1, SlotArg(0)>>}

\* the store after the day of clock 0 was generated and k issue_ticket calls
\* for its first slot ran one after the other, the i-th at clock reading i
Prefilled(k) ==
    LET gen == GenRows(today_str(0), 0)
    IN  [slots |-> [hdr |-> "ok",
                    rows |-> [i \in 1..Len(gen) |->
                                IF i = 1 THEN [gen[i] EXCEPT !.issued = k]
                                ELSE gen[i]]],
         tickets |-> IF k = 0 THEN NewSheet
                     ELSE [hdr |-> "ok",
                           rows |-> [i \in 1..k |->
                                       TicketRow(today_str(0), SlotArg(0)[1],
                                                 SlotArg(0)[2], i)]]]

\* ------------------------------------------------------------- the state
VARIABLES
    slots,        \* the slots worksheet
    tickets,      \* the tickets worksheet
    state,        \* the state worksheet
    stateCache,   \* st.cache_data of list_state_df
    ensureCache,  \* st.cache_data of ensure_today_slots: the dates computed
    ticketsCache, \* st.cache_data of list_tickets_df, by date
    now,          \* the clock, in seconds
    ticks,        \* clock ticks so far
    ops,          \* operations started so far
    sess,         \* each session's position and locals
    ret           \* what the call that ended in the last step returned

vars == <<slots, tickets, state, stateCache, ensureCache, ticketsCache, now,
          ticks, ops, sess, ret>>

IdleSess ==
    [pc |-> "idle", op |-> "none", date |-> 0,
     slot_start |-> <<>>, slot_end |-> <<>>, issued |-> 0,
     key |-> "", value |-> "", plan |-> 0]

\* no call ended in the last step
NoRet == [p |-> 0, op |-> "none", res |-> "none", date |-> 0,
          slot_start |-> <<>>, slot_end |-> <<>>]

\* session p's call with the locals s ended with result r
Ret(p, s, r) == [p |-> p, op |-> s.op, res |-> r, date |-> s.date,
                 slot_start |-> s.slot_start, slot_end |-> s.slot_end]

NoCache == [valid |-> FALSE, rows |-> <<>>]

\* the dates list_tickets_df is asked for
LookupDates == {0, 1}

\* list_tickets_df.clear(): nothing is cached for any date
NoTicketsCache == [d \in LookupDates |-> NoCache]

Init ==
    /\ \E k \in {0, CAP_PER_SLOT - 1, CAP_PER_SLOT} :
          /\ \E fresh \in {k = 0, FALSE} :
                /\ slots = IF fresh THEN NewSheet ELSE Prefilled(k).slots
                /\ \E h \in (IF fresh THEN {"none", "other"} ELSE {"ok"}) :
                      tickets = IF fresh THEN [NewSheet EXCEPT !.hdr = h]
                                ELSE Prefilled(k).tickets
          /\ now = k
    /\ state = NewSheet
    /\ stateCache = NoCache
    /\ ensureCache = {}
    /\ ticketsCache = NoTicketsCache
    /\ ticks = 0
    /\ ops = 0
    /\ sess = [p \in Procs |-> IdleSess]
    /\ ret = NoRet

\* a session with nothing in progress starts an operation; idle sessions
\* being alike, the one of lowest number does
Begin(p) ==
    /\ sess[p].pc = "idle"
    /\ \A q \in Procs : q < p => sess[q].pc # "idle"
    /\ ops < MaxOps
    /\ ops' = ops + 1

\* session p goes on with the locals s; no call ends
Continue(p, s) ==
    /\ sess' = [sess EXCEPT ![p] = s]
    /\ ret' = NoRet

\* session p's call, with the locals s, ends with result r (for a page:
\* the script's run ends)
Return(p, s, r) ==
    /\ sess' = [sess EXCEPT ![p] = IdleSess]
    /\ ret' = Ret(p, s, r)

\* the clock advances by a second.  Only line 192 reads the second of the
\* clock, so the ticks between two readings are taken when a session is
\* about to read it
Tick ==
    /\ ticks < MaxTick
    /\ \E p \in Procs : sess[p].pc = "i_append"
    /\ ticks' = ticks + 1
    /\ now' = now + 1
    /\ ret' = NoRet
    /\ UNCHANGED <<slots, tickets, state, stateCache, ensureCache, ops, sess,
                   ticketsCache>>

\* issue_ticket, lines 171-185, on the arguments in s
IssueRead(p, s) ==
    LET c == IssueCheck(slots, s.date, s.slot_start, s.slot_end)
    IN  /\ IF c.err # "none" THEN Return(p, s, c.err)
           ELSE Continue(p, [s EXCEPT !.pc = "i_append", !.issued = c.issued])
        /\ UNCHANGED <<slots, tickets, state, stateCache, ensureCache, now,
                       ticks, ticketsCache>>

\* issue_ticket called on its own with any arguments
DirectIssue(p) ==
    /\ Begin(p)
    /\ \E x \in IssueArgs :
          IssueRead(p, [IdleSess EXCEPT !.op = "issue", !.date = x[1],
                            !.slot_start = x[2][1], !.slot_end = x[2][2]])

\* issue_ticket called by the button handler of page_issue
PageIssueRead(p) ==
    /\ sess[p].pc = "i_read"
    /\ IssueRead(p, sess[p])
    /\ UNCHANGED ops

\* issue_ticket, lines 187-204
IssueAppend(p) ==
    /\ sess[p].pc = "i_append"
    /\ tickets' = AppendTicket(tickets, sess[p].date, sess[p].slot_start,
                               sess[p].slot_end, now)
    /\ Continue(p, [sess[p] EXCEPT !.pc = "i_find"])
    /\ UNCHANGED <<slots, state, stateCache, ensureCache, now, ticks, ops,
                   ticketsCache>>

\* issue_ticket, lines 206-236: the row is looked up again and its issued
\* cell written.  The two store calls are one step: no operation removes,
\* inserts or reorders slot rows, so the row number cannot go stale
\* between them
IssueUpdate(p) ==
    /\ sess[p].pc = "i_find"
    /\ LET idx == FindTargetRow(slots, sess[p].date, sess[p].slot_start,
                                sess[p].slot_end)
       IN  IF idx = 0
           THEN /\ Return(p, sess[p], "RowNotFound")
                /\ UNCHANGED <<slots, ticketsCache>>
           ELSE /\ slots' = UpdateIssued(slots, idx, sess[p].issued)
                /\ ticketsCache' = NoTicketsCache
                /\ Return(p, sess[p], "OK")
    /\ UNCHANGED <<tickets, state, stateCache, ensureCache, now, ticks, ops>>

\* ensure_today_slots returns to its caller: page_issue goes on at line 254
AfterEnsure(p, s) ==
    IF s.op = "page" THEN Continue(p, [s EXCEPT !.pc = "p_list"])
    ELSE Return(p, s, "Done")

\* ensure_today_slots, lines 109-117, on the date in s
EnsureCheck(p, s) ==
    IF s.date \in ensureCache
    THEN \* st.cache_data: the call was computed before, the body is skipped
         /\ AfterEnsure(p, s)
         /\ UNCHANGED <<slots, tickets, state, stateCache, ensureCache, now,
                        ticks, ticketsCache>>
    ELSE /\ slots' = ensure_headers(slots)
         /\ \E o \in RefetchOutcomes :
               LET dec == EnsureDecision(slots', s.date, o)
               IN  /\ IF dec = "raise" THEN Return(p, s, "TypeError")
                      ELSE IF dec = "return" THEN AfterEnsure(p, s)
                      ELSE Continue(p, [s EXCEPT !.pc = "e_append"])
                   /\ ensureCache' = IF dec = "return"
                                     THEN ensureCache \cup {s.date}
                                     ELSE ensureCache
         /\ UNCHANGED <<tickets, state, stateCache, now, ticks, ticketsCache>>

\* ensure_today_slots called on its own; its callers (lines 253, 333) pass
\* today_str()
DirectEnsure(p) ==
    /\ Begin(p)
    /\ EnsureCheck(p, [IdleSess EXCEPT !.op = "ensure", !.date = today_str(now)])

\* ensure_today_slots called by page_issue, line 253
PageEnsure(p) ==
    /\ sess[p].pc = "p_ensure"
    /\ EnsureCheck(p, sess[p])
    /\ UNCHANGED ops

\* ensure_today_slots, lines 119-132
EnsureAppend(p) ==
    /\ sess[p].pc = "e_append"
    /\ slots' = AppendGenerated(slots, sess[p].date, now)
    /\ ensureCache' = ensureCache \cup {sess[p].date}
    /\ AfterEnsure(p, sess[p])
    /\ UNCHANGED <<tickets, state, stateCache, now, ticks, ops, ticketsCache>>

\* list_state_df(): the cached frame, or the sheet read and cached
StateFrame == IF stateCache.valid THEN stateCache.rows ELSE state.rows

\* page_issue, lines 241-252
PageStart(p) ==
    /\ Begin(p)
    /\ stateCache' = [valid |-> TRUE, rows |-> StateFrame]
    /\ IF state_get(StateFrame, "paused", "false") = "true"
       THEN Return(p, [IdleSess EXCEPT !.op = "page"], "Paused")
       ELSE Continue(p, [IdleSess EXCEPT !.op = "page", !.pc = "p_ensure",
                                         !.date = today_str(now)])
    /\ UNCHANGED <<slots, tickets, state, ensureCache, now, ticks,
                   ticketsCache>>

\* page_issue, lines 254-280: the slots of the day are listed and the
\* customer's click on an enabled button calls issue_ticket for its row
PageList(p) ==
    /\ sess[p].pc = "p_list"
    /\ \E o \in RefetchOutcomes :
          IF o = "TypeError"
          THEN Return(p, sess[p], "TypeError")
          ELSE LET df == list_slots_df(slots, sess[p].date)
               IN  IF df = <<>>
                   THEN Return(p, sess[p], "NoSlots")
                   ELSE \/ Return(p, sess[p], "Rendered")
                        \/ \E i \in 1..Len(df) :
                             /\ <<df[i].slot_start, df[i].slot_end>> \in TargetSlots
                             /\ ~Disabled(df[i])
                             /\ Continue(p, [sess[p] EXCEPT !.pc = "i_read",
                                        !.slot_start = df[i].slot_start,
                                        !.slot_end = df[i].slot_end])
    /\ UNCHANGED <<slots, tickets, state, stateCache, ensureCache, now,
                   ticks, ops, ticketsCache>>

\* page_manage, lines 361-383: the close (v = FALSE) and reopen (v = TRUE)
\* buttons for a slot of today
AdminSetOpen ==
    /\ ops < MaxOps
    /\ ops' = ops + 1
    /\ \E a \in TargetSlots, v \in BOOLEAN :
          /\ MatchingRows(slots, today_str(now), a[1], a[2]) # {}
          /\ slots' = SetOpenCell(slots, today_str(now), a[1], a[2], v)
          /\ ret' = [NoRet EXCEPT !.op = IF v THEN "reopen" ELSE "close",
                        !.res = "Done", !.date = today_str(now),
                        !.slot_start = a[1], !.slot_end = a[2]]
    /\ UNCHANGED <<tickets, state, stateCache, ensureCache, now, ticks, sess,
                   ticketsCache>>

\* page_manage, lines 387-391, and state_set, lines 146-154: the pause
\* button sets "paused" to the opposite of what state_get returned
PauseBegin(p) ==
    /\ Begin(p)
    /\ stateCache' = [valid |-> TRUE, rows |-> StateFrame]
    /\ state' = ensure_headers(state)
    /\ Continue(p, [IdleSess EXCEPT !.op = "pause", !.pc = "s_write",
                        !.key = "paused",
                        !.value = IF state_get(StateFrame, "paused", "false") = "true"
                                  THEN "false" ELSE "true",
                        !.plan = StateSetPlan(state.rows, "paused")])
    /\ UNCHANGED <<slots, tickets, ensureCache, now, ticks, ticketsCache>>

\* state_set, lines 151-159
StateWrite(p) ==
    /\ sess[p].pc = "s_write"
    /\ state' = StateSetWrite(state, sess[p].plan, sess[p].key, sess[p].value)
    /\ Continue(p, [sess[p] EXCEPT !.pc = "s_clear"])
    /\ UNCHANGED <<slots, tickets, stateCache, ensureCache, now, ticks, ops,
                   ticketsCache>>

\* state_set, line 160
StateClear(p) ==
    /\ sess[p].pc = "s_clear"
    /\ stateCache' = NoCache
    /\ Return(p, sess[p], "Done")
    /\ UNCHANGED <<slots, tickets, state, ensureCache, now, ticks, ops,
                   ticketsCache>>

Next ==
    \/ Tick
    \/ \E p \in Procs : DirectIssue(p)
    \/ \E p \in Procs : PageIssueRead(p)
    \/ \E p \in Procs : IssueAppend(p)
    \/ \E p \in Procs : IssueUpdate(p)
    \/ \E p \in Procs : DirectEnsure(p)
    \/ \E p \in Procs : PageEnsure(p)
    \/ \E p \in Procs : EnsureAppend(p)
    \/ \E p \in Procs : PageStart(p)
    \/ \E p \in Procs : PageList(p)
    \/ AdminSetOpen
    \/ \E p \in Procs : PauseBegin(p)
    \/ \E p \in Procs : StateWrite(p)
    \/ \E p \in Procs : StateClear(p)

Spec == Init /\ [][Next]_vars

\* ------------------------------------- concurrent issue_ticket calls only
\* a session with nothing in progress starts an issue_ticket call
IssueBegin(p) ==
    /\ sess[p].pc = "idle"
    /\ \A q \in Procs : q < p => sess[q].pc # "idle"
    /\ ops < MaxIssues
    /\ ops' = ops + 1

\* issue_ticket called on its own with any arguments
ConcIssue(p) ==
    /\ IssueBegin(p)
    /\ \E x \in IssueArgs :
          IssueRead(p, [IdleSess EXCEPT !.op = "issue", !.date = x[1],
                            !.slot_start = x[2][1], !.slot_end = x[2][2]])

NextIssue ==
    \/ Tick
    \/ \E p \in Procs : ConcIssue(p)
    \/ \E p \in Procs : IssueAppend(p)
    \/ \E p \in Procs : IssueUpdate(p)

SpecIssue == Init /\ [][NextIssue]_vars

\* ------------------------------------------- calls run one at a time
\* issue_ticket, line 230: a call that returns has cleared the cache of
\* list_tickets_df; a call that raises has not
TicketsCacheAfterIssue(cache, res) ==
    IF res = "OK" THEN NoTicketsCache ELSE cache

IsFirstSlot(d, a) == d = today_str(now) /\ a = SlotArg(0)

\* a whole issue_ticket call by session 1; the successful calls for slots
\* other than today's first are counted in ops
SeqIssue ==
    \E x \in SeqArgs :
        LET d == x[1]
            a == x[2]
            r == issue_ticket(slots, tickets, d, a[1], a[2], now)
        IN  /\ r.res # "OK" \/ IsFirstSlot(d, a) \/ ops < MaxOther
            /\ ops' = IF r.res = "OK" /\ ~IsFirstSlot(d, a) THEN ops + 1 ELSE ops
            /\ slots' = r.slots
            /\ tickets' = r.tickets
            /\ ticketsCache' = TicketsCacheAfterIssue(ticketsCache, r.res)
            /\ ret' = [p |-> 1, op |-> "issue", res |-> r.res, date |-> d,
                       slot_start |-> a[1], slot_end |-> a[2]]
            /\ UNCHANGED <<state, stateCache, ensureCache, now, ticks, sess>>

\* a whole ensure_today_slots call by session 1
SeqEnsure ==
    \E o \in RefetchOutcomes :
        LET r == ensure_today_slots(slots, ensureCache, today_str(now), now, o)
        IN  /\ slots' = r.slots
            /\ ensureCache' = r.cache
            /\ ret' = [NoRet EXCEPT !.p = 1, !.op = "ensure", !.res = r.res,
                                    !.date = today_str(now)]
            /\ UNCHANGED <<tickets, state, stateCache, now, ticks, ops, sess,
                           ticketsCache>>

NextSeq == SeqIssue \/ SeqEnsure

SpecSeq == Init /\ [][NextSeq]_vars

\* -------------------------------------------------- the ticket lookup
\* list_tickets_df without the filter on the date
list_tickets_dfAllDates(ws, date_str) == ws.rows

\* df[df["date"] == date_str] on the tickets sheet
list_tickets_df(ws, date_str) == SelectSeq(ws.rows, LAMBDA r : r.date = date_str)

\* list_tickets_df(date_str) under st.cache_data: the entry of the date,
\* computed from the sheet when there is none
TicketsLookup(cache, ws, date_str) ==
    IF cache[date_str].valid THEN cache[date_str]
    ELSE [valid |-> TRUE, rows |-> list_tickets_df(ws, date_str)]

\* a list_tickets_df(d) call; what it returns is the entry of d afterwards
ListTickets ==
    \E d \in LookupDates :
        /\ ticketsCache' = [ticketsCache EXCEPT
                               ![d] = TicketsLookup(ticketsCache, tickets, d)]
        /\ ret' = [NoRet EXCEPT !.p = 1, !.op = "lookup", !.res = "Done",
                                !.date = d]
        /\ UNCHANGED <<slots, tickets, state, stateCache, ensureCache, now,
                       ticks, ops, sess>>

\* the clock advances by a second between two calls
SeqTick ==
    /\ ticks < MaxTick
    /\ ticks' = ticks + 1
    /\ now' = now + 1
    /\ ret' = NoRet
    /\ UNCHANGED <<slots, tickets, state, stateCache, ensureCache, ticketsCache,
                   ops, sess>>

\* the first second of day 1 in JST
DayOneClock == 86400 - 9 * 3600

\* the sheets on day 1: the slots of day 0 and of day 1 were generated, each
\* on its day, and no ticket has been issued
InitLookup ==
    /\ slots = [hdr |-> "ok", rows |-> GenRows(0, 0) \o GenRows(1, DayOneClock)]
    /\ tickets = NewSheet
    /\ now = DayOneClock
    /\ state = NewSheet
    /\ stateCache = NoCache
    /\ ensureCache = {}
    /\ ticketsCache = NoTicketsCache
    /\ ticks = 0
    /\ ops = 0
    /\ sess = [p \in Procs |-> IdleSess]
    /\ ret = NoRet

\* a whole issue_ticket call for a slot of day 0 or of day 1; the
\* successful calls are counted in ops
LookupIssue ==
    \E d \in LookupDates, a \in TargetSlots :
        LET r == issue_ticket(slots, tickets, d, a[1], a[2], now)
        IN  /\ r.res # "OK" \/ ops < MaxOps
            /\ ops' = IF r.res = "OK" THEN ops + 1 ELSE ops
            /\ slots' = r.slots
            /\ tickets' = r.tickets
            /\ ticketsCache' = TicketsCacheAfterIssue(ticketsCache, r.res)
            /\ ret' = [p |-> 1, op |-> "issue", res |-> r.res, date |-> d,
                       slot_start |-> a[1], slot_end |-> a[2]]
            /\ UNCHANGED <<state, stateCache, ensureCache, now, ticks, sess>>

NextLookup == LookupIssue \/ ListTickets \/ SeqTick

SpecLookup == InitLookup /\ [][NextLookup]_vars

\* ---------------------------------------------------------------- claims
\* the ticket rows recorded for the slot of row r
TicketsOf(r) ==
    {j \in 1..Len(tickets.rows) :
        /\ tickets.rows[j].date = r.date
        /\ tickets.rows[j].slot_start = r.slot_start
        /\ tickets.rows[j].slot_end = r.slot_end}

\* C1: the number of ticket rows recorded for one (date, slot_start,
\* slot_end) never exceeds that slot's cap, also when issue_ticket calls for
\* the slot run concurrently.
C1_TicketsWithinCap ==
    \A i \in 1..Len(slots.rows) :
        Cardinality(TicketsOf(slots.rows[i])) <= slots.rows[i].cap

\* C2: in every reachable state every slot row's stored counter satisfies
\* 0 <= issued <= cap.
C2_IssuedWithinCap ==
    \A i \in 1..Len(slots.rows) :
        /\ 0 <= slots.rows[i].issued
        /\ slots.rows[i].issued <= slots.rows[i].cap

\* C2 witness: concurrent calls have raced on a slot (more ticket rows than
\* its cap) and its counter stands at cap
C2_Witness ==
    \E i \in 1..Len(slots.rows) :
        /\ slots.rows[i].issued = slots.rows[i].cap
        /\ Cardinality(TicketsOf(slots.rows[i])) > slots.rows[i].cap

\* the first row matching (d, ss, se), for arguments some row matches
RowOf(d, ss, se) == slots.rows[FirstRow(MatchingRows(slots, d, ss, se))]

HasRow(d, ss, se) == MatchingRows(slots, d, ss, se) # {}

\* C3: when issue_ticket calls run one at a time, a call for an open slot
\* succeeds while the slot's issued is below its cap of 20 (adding one
\* ticket row and one to that slot's issued, every other slot row
\* unchanged) and fails with the slot-full error, changing nothing, from
\* then on; so the first 20 calls for a slot of a freshly generated day
\* succeed, and each slot's issued is the number of its ticket rows.
C3_SequentialFill ==
    /\ [](\A i \in 1..Len(slots.rows) :
            /\ slots.rows[i].cap = 20
            /\ slots.rows[i].issued = Cardinality(TicketsOf(slots.rows[i]))
            /\ slots.rows[i].issued <= 20)
    /\ [][(ret'.op = "issue" /\ HasRow(ret'.date, ret'.slot_start, ret'.slot_end))
            => LET i == FirstRow(MatchingRows(slots, ret'.date, ret'.slot_start,
                                              ret'.slot_end))
               IN  IF slots.rows[i].issued < 20
                   THEN /\ ret'.res = "OK"
                        /\ Len(tickets'.rows) = Len(tickets.rows) + 1
                        /\ slots'.rows[i].issued = slots.rows[i].issued + 1
                        /\ \A j \in 1..Len(slots.rows) :
                              j # i => slots'.rows[j] = slots.rows[j]
                   ELSE /\ ret'.res = "Full"
                        /\ tickets' = tickets
                        /\ slots' = slots]_vars

\* C3 witness: the first slot is full after 20 calls, a call for it has just
\* failed with the slot-full error, and another slot has issued = 1
C3_Witness ==
    /\ ret.op = "issue" /\ ret.res = "Full"
    /\ HasRow(ret.date, ret.slot_start, ret.slot_end)
    /\ RowOf(ret.date, ret.slot_start, ret.slot_end).issued = 20
    /\ \E j \in 1..Len(slots.rows) : slots.rows[j].issued = 1
    /\ Len(tickets.rows) = 21

\* session p performs lines 171-185 of issue_ticket in this step
IsCheckStep(p) ==
    \/ sess[p].pc = "i_read" /\ sess'[p].pc # "i_read"
    \/ /\ sess[p].pc = "idle" /\ ops' = ops + 1
       /\ \/ sess'[p].op = "issue" /\ sess'[p].pc = "i_append"
          \/ ret'.p = p /\ ret'.op = "issue"

\* the arguments of that call
CheckArgs(p) ==
    IF sess[p].pc = "i_read" THEN sess[p]
    ELSE IF sess'[p].pc = "i_append" THEN sess'[p]
    ELSE [date |-> ret'.date, slot_start |-> ret'.slot_start,
          slot_end |-> ret'.slot_end]

\* the call of session p ends in this step with error e and the two sheets
\* are as before
RejectedWith(p, e) ==
    /\ ret'.p = p /\ ret'.res = e
    /\ sess'[p].pc = "idle"
    /\ tickets' = tickets
    /\ slots' = slots

\* C4: an issue_ticket call that reads the slots while the slot's open flag
\* is false (after the administrator closed it, before it is reopened)
\* fails with the slot-closed error, appends no ticket row and leaves the
\* issued counter unchanged, whatever the remaining capacity.
C4_ClosedRejected ==
    [][\A p \in Procs :
         (/\ IsCheckStep(p)
          /\ HasRow(CheckArgs(p).date, CheckArgs(p).slot_start, CheckArgs(p).slot_end)
          /\ ~RowOf(CheckArgs(p).date, CheckArgs(p).slot_start,
                    CheckArgs(p).slot_end).open)
         => RejectedWith(p, "Closed")]_vars

\* C4 witness: a call has just failed with the slot-closed error for a slot
\* that has capacity left
C4_Witness ==
    /\ ret.res = "Closed"
    /\ HasRow(ret.date, ret.slot_start, ret.slot_end)
    /\ ~RowOf(ret.date, ret.slot_start, ret.slot_end).open
    /\ RowOf(ret.date, ret.slot_start, ret.slot_end).issued
          < RowOf(ret.date, ret.slot_start, ret.slot_end).cap

\* C5: issue_ticket reports the first rejection that applies, in the order
\* slot not found (no row of the sheet, or none matching), slot closed,
\* slot full; a rejected call appends no ticket row and changes no slot
\* row; a call for an open slot below its cap is not rejected.
C5_RejectionOrder ==
    [][\A p \in Procs :
         IsCheckStep(p) =>
            LET a == CheckArgs(p)
            IN  IF ~HasRow(a.date, a.slot_start, a.slot_end)
                THEN \/ RejectedWith(p, "NotFound")
                     \/ slots.rows = <<>> /\ RejectedWith(p, "NotGenerated")
                ELSE IF ~RowOf(a.date, a.slot_start, a.slot_end).open
                THEN RejectedWith(p, "Closed")
                ELSE IF RowOf(a.date, a.slot_start, a.slot_end).issued
                          >= RowOf(a.date, a.slot_start, a.slot_end).cap
                THEN RejectedWith(p, "Full")
                ELSE sess'[p].pc = "i_append" /\ ret'.p # p]_vars

\* C5 witness: a call for a slot that is both closed and full has just
\* failed with the slot-closed error
C5_Witness ==
    /\ ret.res = "Closed"
    /\ HasRow(ret.date, ret.slot_start, ret.slot_end)
    /\ ~RowOf(ret.date, ret.slot_start, ret.slot_end).open
    /\ RowOf(ret.date, ret.slot_start, ret.slot_end).issued
          >= RowOf(ret.date, ret.slot_start, ret.slot_end).cap

\* the stored value of "paused" is "true"
PausedStored == state_get(state.rows, "paused", "false") = "true"

\* some state_set call has begun and not returned
SetInProgress == \E p \in Procs : sess[p].pc \in {"s_write", "s_clear"}

\* this step appends a ticket row or changes an issued counter
IssuanceStep ==
    \/ tickets'.rows # tickets.rows
    \/ \E i \in 1..Len(slots.rows) : slots'.rows[i].issued # slots.rows[i].issued

\* C6: while the stored paused flag is "true" and the state_set that wrote
\* it has completed, no step appends a ticket row or changes an issued
\* counter.
C6_NoIssueWhilePaused ==
    [][(PausedStored /\ ~SetInProgress) => ~IssuanceStep]_vars

\* C6, for the calls page_issue makes only: the same with the calls of
\* issue_ticket that do not come from the customer page left aside
C6_PageRoute ==
    [][(PausedStored /\ ~SetInProgress)
         => \A p \in Procs :
               (sess[p].op = "page" /\ sess'[p] # sess[p]) => ~IssuanceStep]_vars

\* C7: no two ticket rows of the same date carry the same ticket_id.
C7_UniqueTicketIds ==
    \A i, j \in 1..Len(tickets.rows) :
        (i < j /\ tickets.rows[i].date = tickets.rows[j].date)
        => tickets.rows[i].ticket_id # tickets.rows[j].ticket_id

\* session p runs lines 109-117 of ensure_today_slots in this step
IsEnsureStep(p) ==
    \/ sess[p].pc = "p_ensure" /\ sess'[p] # sess[p]
    \/ /\ sess[p].pc = "idle" /\ ops' = ops + 1
       /\ \/ sess'[p].op = "ensure"
          \/ ret'.p = p /\ ret'.op = "ensure"

\* the day that call is for
EnsureDate(p) == IF sess[p].pc = "p_ensure" THEN sess[p].date ELSE today_str(now)

\* C8: an ensure_today_slots call for a day that already has slot rows
\* changes no slot row (issued and open values included) and does not go
\* on to append rows, under any interleaving with issuance and the
\* administrator's toggles.
C8_EnsureIdempotent ==
    [][\A p \in Procs :
         (IsEnsureStep(p) /\ list_slots_df(slots, EnsureDate(p)) # <<>>)
         => /\ slots'.rows = slots.rows
            /\ sess'[p].pc # "e_append"]_vars

\* C8 witness: ensure_today_slots has just returned for a day whose 10 rows
\* carry an issued count and a closed flag written after their generation
C8_Witness ==
    /\ ret.op = "ensure" /\ ret.res = "Done"
    /\ Len(list_slots_df(slots, ret.date)) = 10
    /\ \E i \in 1..Len(slots.rows) :
          /\ slots.rows[i].date = ret.date
          /\ slots.rows[i].issued >= 1
          /\ ~slots.rows[i].open

\* the 10 intervals of a day, written out
SlotTable ==
    << << <<1,1,0,0>>, <<1,1,3,0>> >>, << <<1,1,3,0>>, <<1,2,0,0>> >>,
       << <<1,2,0,0>>, <<1,2,3,0>> >>, << <<1,2,3,0>>, <<1,3,0,0>> >>,
       << <<1,3,0,0>>, <<1,3,3,0>> >>, << <<1,3,3,0>>, <<1,4,0,0>> >>,
       << <<1,4,0,0>>, <<1,4,3,0>> >>, << <<1,4,3,0>>, <<1,5,0,0>> >>,
       << <<1,5,0,0>>, <<1,5,3,0>> >>, << <<1,5,3,0>>, <<1,6,0,0>> >> >>

ExpectedDay(d) ==
    [i \in 1..10 |-> [date |-> d, slot_start |-> SlotTable[i][1],
                      slot_end |-> SlotTable[i][2], cap |-> 20, issued |-> 0,
                      open |-> TRUE, note |-> ""]]

\* C9: an ensure_today_slots call for a day with no slot rows leaves the
\* day with exactly the 10 rows 11:00-11:30 .. 15:30-16:00, in order, each
\* with issued = 0, open = true and cap = 20.
C9_GeneratesTenSlots ==
    [][(ret'.op = "ensure" /\ list_slots_df(slots, ret'.date) = <<>>)
         => list_slots_df(slots', ret'.date) = ExpectedDay(ret'.date)]_vars

\* C9, for the calls in which line 115 yields the rows of the day: lines
\* 119-132 append the 10 rows
C9_LoopRows ==
    [][(ret'.op = "ensure" /\ ret'.res # "TypeError"
          /\ list_slots_df(slots, ret'.date) = <<>>)
         => list_slots_df(slots', ret'.date) = ExpectedDay(ret'.date)]_vars

\* C10: every ticket row has expires_at on the row's date at slot_end plus
\* 30 minutes (13:30 gives 14:00, 16:00 gives 16:30), and the row a
\* successful call appends carries the call's date, slot_start and slot_end.
C10_ExpiresAt ==
    /\ \A i \in 1..Len(tickets.rows) :
          LET t == tickets.rows[i]
              e == t.slot_end
              mins == (e[1] * 10 + e[2]) * 60 + e[3] * 10 + e[4] + 30
          IN  /\ t.expires_at.day = t.date
              /\ t.expires_at.hm = << (mins \div 60) \div 10, (mins \div 60) % 10,
                                      (mins % 60) \div 10, (mins % 60) % 10 >>
              /\ e = <<1,3,3,0>> => t.expires_at.hm = <<1,4,0,0>>
              /\ e = <<1,6,0,0>> => t.expires_at.hm = <<1,6,3,0>>
    /\ (ret.op = "issue" /\ ret.res = "OK")
         => /\ tickets.rows # <<>>
            /\ tickets.rows[Len(tickets.rows)].date = ret.date
            /\ tickets.rows[Len(tickets.rows)].slot_start = ret.slot_start
            /\ tickets.rows[Len(tickets.rows)].slot_end = ret.slot_end

\* C10 witness: a ticket for 13:00-13:30 has just been issued and expires
\* at 14:00 of the same day
C10_Witness ==
    /\ ret.op = "issue" /\ ret.res = "OK"
    /\ ret.slot_start = <<1,3,0,0>> /\ ret.slot_end = <<1,3,3,0>>
    /\ tickets.rows # <<>>
    /\ tickets.rows[Len(tickets.rows)].expires_at = [day |-> ret.date, hm |-> <<1,4,0,0>>]

\* the positions of the ticket rows of date d
TicketRowsOf(d) == {i \in 1..Len(tickets.rows) : tickets.rows[i].date = d}

\* C11: what list_tickets_df(d) returns is exactly the ticket rows whose
\* date is d, in the order of the sheet: every returned row has date d, and
\* every ticket row of date d is returned once; no row of another date is
\* returned, whatever its ticket_id.
C11_LookupScopedToDay ==
    ret.op = "lookup" =>
        LET got == ticketsCache[ret.date].rows
            S == TicketRowsOf(ret.date)
        IN  /\ ticketsCache[ret.date].valid
            /\ \A j \in 1..Len(got) : got[j].date = ret.date
            /\ Len(got) = Cardinality(S)
            /\ \A j \in 1..Len(got) :
                  \E i \in S :
                     /\ tickets.rows[i] = got[j]
                     /\ Cardinality({k \in S : k < i}) = j - 1

\* C11 witness: a lookup for a date has just returned a ticket row while a
\* ticket row of the other date carries the same ticket_id
C11_Witness ==
    /\ ret.op = "lookup"
    /\ \E j \in 1..Len(ticketsCache[ret.date].rows) :
          \E i \in 1..Len(tickets.rows) :
             /\ tickets.rows[i].date # ret.date
             /\ tickets.rows[i].ticket_id = ticketsCache[ret.date].rows[j].ticket_id

\* some issue_ticket call has begun and not returned
IssueInProgress == \E p \in Procs : sess[p].pc \in {"i_read", "i_append", "i_find"}

\* row i is the row issue_ticket matches for its (date, slot_start, slot_end)
IsMatchedRow(i) ==
    i = FirstRow(MatchingRows(slots, slots.rows[i].date, slots.rows[i].slot_start,
                              slots.rows[i].slot_end))

\* C12: in every state in which no issue_ticket call is in progress, the
\* issued counter of each slot equals the number of ticket rows with the
\* slot's date, slot_start and slot_end.
C12_IssuedCountsTickets ==
    ~IssueInProgress =>
        \A i \in 1..Len(slots.rows) :
            IsMatchedRow(i) =>
                slots.rows[i].issued = Cardinality(TicketsOf(slots.rows[i]))

\* C13: no step lowers the stored issued counter of a slot row.
C13_IssuedNeverDecreases ==
    [][\A i \in 1..Len(slots.rows) :
          slots'.rows[i].issued >= slots.rows[i].issued]_vars

C15_ToggleFrame ==
    [][(ret'.op \in {"close", "reopen"})
         => LET i == FirstRow(MatchingRows(slots, ret'.date, ret'.slot_start,
                                           ret'.slot_end))
                v == (ret'.op = "reopen")
            IN  /\ ret'.date = today_str(now)
                /\ Len(slots'.rows) = Len(slots.rows)
                /\ \A j \in 1..Len(slots.rows) :
                      j # i => slots'.rows[j] = slots.rows[j]
                /\ slots'.rows[i].open = v
                /\ [slots'.rows[i] EXCEPT !.open = slots.rows[i].open] = slots.rows[i]
                /\ slots'.hdr = slots.hdr
                /\ tickets' = tickets
                /\ state' = state
                /\ sess' = sess
                /\ SetOpenCell(slots', ret'.date, ret'.slot_start, ret'.slot_end, v)
                     = slots']_vars

\* C15 witness: a slot has just been closed while an issue_ticket call for
\* it has appended its ticket and not yet written issued
C15_Witness ==
    /\ ret.op = "close"
    /\ ~RowOf(ret.date, ret.slot_start, ret.slot_end).open
    /\ \E p \in Procs :
          /\ sess[p].pc = "i_find"
          /\ sess[p].date = ret.date
          /\ sess[p].slot_start = ret.slot_start
          /\ sess[p].slot_end = ret.slot_end

\* C16: the state table holds at most one row per key.
C16_OneRowPerKey ==
    \A i, j \in 1..Len(state.rows) :
        i < j => state.rows[i].key # state.rows[j].key

\* C16, the read-back: when a state_set(k, v) call returns, a fresh
\* state_get(k) gives v
C16_ReadBack ==
    [][(ret'.op = "pause" /\ ret'.res = "Done")
         => state_get(state'.rows, sess[ret'.p].key, "false") = sess[ret'.p].value]_vars

====
